---- MODULE Spec2Model ----
(***************************************************************************)
(* A model of crx_to_zip (src/src/lib.rs, lines 143-219): the conversion   *)
(* of a CRX container (versions 2 and 3) to the ZIP archive it wraps.      *)
(*                                                                         *)
(* A call is a stack frame holding the function's locals and the position *)
(* of its reader; the recursive call of line 211 pushes a frame.  Bytes    *)
(* are naturals 0..255, a u32 is a pair of 16-bit halves (so that the      *)
(* whole 32-bit range and its overflow are represented), strings are       *)
(* sequences of code points (magic comparison) or of characters (base64). *)
(***************************************************************************)
EXTENDS Naturals, Sequences, FiniteSets

VARIABLES
    stack,      \* the active calls of crx_to_zip, outermost first
    ret,        \* the value a finished nested call handed to its caller
    result,     \* the outcome of the outermost call
    stdout,     \* the lines println! has written
    overflow,   \* what the build did on the first u32 overflow, if any
    log         \* history: per call depth, the argument and the outcome

vars == <<stack, ret, result, stdout, overflow, log>>

\* ------------------------------------------------------------------ bounds

\* Most filler words after the four header words of a generated input.
MaxBody == 3
\* Most single bytes appended after the last whole word of a generated input.
MaxTail == 2
\* Most wrapping layers put around a generated input.
MaxNest == 2

\* ------------------------------------------------------------ u32 values

\* A decoding that takes the low byte for the value.
FromLeBytesLowByte(b) ==
    [lo |-> b[1], hi |-> 0]

\* u32::from_le_bytes on a 4-byte array.
FromLeBytes(b) ==
    [lo |-> b[1] + 256 * b[2], hi |-> b[3] + 256 * b[4]]

\* A small literal as u32 (the 2, 3, 12 and 16 of the source).
U32(n) == [lo |-> n % 65536, hi |-> (n \div 65536) % 65536]

\* u32 + u32: the wrapped sum and whether the true sum left the u32 range.
AddU32(a, b) ==
    LET lo == a.lo + b.lo
        hi == a.hi + b.hi + (lo \div 65536)
    IN  [val |-> [lo |-> lo % 65536, hi |-> hi % 65536], over |-> hi >= 65536]

\* --------------------------------------------------------------- strings

\* The bytes of the literal "Cr24".
Cr24 == <<67, 114, 50, 52>>

Get(bytes, i) == IF i <= Len(bytes) THEN bytes[i] ELSE 0

IsCont(c) == c \in 128..191

\* UTF8_CHAR_WIDTH of the standard library.
Utf8Width(b) ==
    IF b < 128 THEN 1
    ELSE IF b \in 194..223 THEN 2
    ELSE IF b \in 224..239 THEN 3
    ELSE IF b \in 240..244 THEN 4
    ELSE 0

\* The first chunk of a lossy decode: the code point produced and the
\* number of bytes consumed (an invalid maximal subpart gives U+FFFD).
Utf8Chunk(bytes) ==
    LET b  == bytes[1]
        c1 == Get(bytes, 2)
        c2 == Get(bytes, 3)
        c3 == Get(bytes, 4)
        w  == Utf8Width(b)
        second3 == \/ b = 224 /\ c1 \in 160..191
                   \/ b \in 225..236 /\ c1 \in 128..191
                   \/ b = 237 /\ c1 \in 128..159
                   \/ b \in 238..239 /\ c1 \in 128..191
        second4 == \/ b = 240 /\ c1 \in 144..191
                   \/ b \in 241..243 /\ c1 \in 128..191
                   \/ b = 244 /\ c1 \in 128..143
        bad(n) == [cp |-> 65533, n |-> n]
    IN  IF w = 1 THEN [cp |-> b, n |-> 1]
        ELSE IF w = 2 THEN
            IF IsCont(c1) THEN [cp |-> (b % 32) * 64 + (c1 % 64), n |-> 2]
            ELSE bad(1)
        ELSE IF w = 3 THEN
            IF ~second3 THEN bad(1)
            ELSE IF ~IsCont(c2) THEN bad(2)
            ELSE [cp |-> (b % 16) * 4096 + (c1 % 64) * 64 + (c2 % 64), n |-> 3]
        ELSE IF w = 4 THEN
            IF ~second4 THEN bad(1)
            ELSE IF ~IsCont(c2) THEN bad(2)
            ELSE IF ~IsCont(c3) THEN bad(3)
            ELSE [cp |-> (b % 8) * 262144 + (c1 % 64) * 4096
                          + (c2 % 64) * 64 + (c3 % 64), n |-> 4]
        ELSE bad(1)

RECURSIVE FromUtf8Lossy(_)
\* String::from_utf8_lossy: the code points of the decoded string.
FromUtf8Lossy(bytes) ==
    IF bytes = <<>> THEN <<>>
    ELSE LET c == Utf8Chunk(bytes)
         IN  <<c.cp>> \o FromUtf8Lossy(SubSeq(bytes, c.n + 1, Len(bytes)))

\* A comparison that stops after "Cr2".
IsCr24FirstThree(buf) ==
    SubSeq(FromUtf8Lossy(buf), 1, 3) = SubSeq(Cr24, 1, 3)

\* `String::from_utf8_lossy(&buf) == "Cr24"` (lines 149 and 202).
IsCr24(buf) == FromUtf8Lossy(buf) = Cr24

B64Alphabet ==
    << "A","B","C","D","E","F","G","H","I","J","K","L","M","N","O","P",
       "Q","R","S","T","U","V","W","X","Y","Z","a","b","c","d","e","f",
       "g","h","i","j","k","l","m","n","o","p","q","r","s","t","u","v",
       "w","x","y","z","0","1","2","3","4","5","6","7","8","9","+","/" >>

B64Char(i) == B64Alphabet[i + 1]

RECURSIVE Base64Encode(_)
\* general_purpose::STANDARD.encode: the characters of the padded encoding.
Base64Encode(bytes) ==
    IF bytes = <<>> THEN <<>>
    ELSE IF Len(bytes) = 1 THEN
        << B64Char(bytes[1] \div 4), B64Char((bytes[1] % 4) * 16), "=", "=" >>
    ELSE IF Len(bytes) = 2 THEN
        << B64Char(bytes[1] \div 4),
           B64Char((bytes[1] % 4) * 16 + bytes[2] \div 16),
           B64Char((bytes[2] % 16) * 4), "=" >>
    ELSE
        << B64Char(bytes[1] \div 4),
           B64Char((bytes[1] % 4) * 16 + bytes[2] \div 16),
           B64Char((bytes[2] % 16) * 4 + bytes[3] \div 64),
           B64Char(bytes[3] % 64) >>
        \o Base64Encode(SubSeq(bytes, 4, Len(bytes)))

\* ------------------------------------------------------- values returned

Running == [kind |-> "Running", err |-> "", msg |-> "", out |-> <<>>]
Ok(out) == [kind |-> "Ok", err |-> "", msg |-> "", out |-> out]
Err(e, m) == [kind |-> "Err", err |-> e, msg |-> m, out |-> <<>>]
Panicked == [kind |-> "Panic", err |-> "", msg |-> "attempt to add with overflow", out |-> <<>>]

\* The error read_exact returns when the reader holds too few bytes.
UnexpectedEof == Err("UnexpectedEof", "failed to fill whole buffer")
NotCrx == Err("InvalidData", "input is not a crx file")
InvalidVersion == Err("InvalidData", "invalid crx version")

None == [some |-> FALSE, val |-> <<>>]
Some(v) == [some |-> TRUE, val |-> v]

\* ------------------------------------------------------------ the reader

\* The frame of a fresh call: its arguments, and the reader at position 0.
NewFrame(crx, previous_public_key) ==
    [ crx |-> crx, previous_public_key |-> previous_public_key,
      pos |-> 0, pc |-> "magic",
      version |-> U32(0), next_four |-> U32(0),
      zip_start_offset |-> U32(0), public_key_b64 |-> <<>> ]

\* reader.read_exact on an n-byte array: the bytes, or too few are left.
ReadExact(f, n) ==
    IF f.pos + n <= Len(f.crx)
    THEN [ok |-> TRUE, bytes |-> SubSeq(f.crx, f.pos + 1, f.pos + n), pos |-> f.pos + n]
    ELSE [ok |-> FALSE, bytes |-> <<>>, pos |-> Len(f.crx)]

\* reader.read_to_end from the current position.
ReadToEnd(f) == SubSeq(f.crx, f.pos + 1, Len(f.crx))

\* reader.seek(SeekFrom::Start(offset.into())) then read_to_end: a cursor
\* may be put past the end, where it reads nothing.
SeekAndReadToEnd(crx, offset) ==
    IF offset.hi > 0 \/ offset.lo >= Len(crx) THEN <<>>
    ELSE SubSeq(crx, offset.lo + 1, Len(crx))

\* 16 + next_four + signature_key_length (line 174), added left to right.
ZipStartV2(next_four, signature_key_length) ==
    LET a == AddU32(U32(16), next_four)
        b == AddU32(a.val, signature_key_length)
    IN  [val |-> b.val, over |-> a.over \/ b.over]

\* 12 + next_four (line 186).
ZipStartV3(next_four) == AddU32(U32(12), next_four)

\* What an overflowing addition may do: panic (overflow checks on, the dev
\* profile) or wrap (the release profile); one build does the same each time.
OverflowOutcomes ==
    IF overflow = "none" THEN {"panic", "wrap"} ELSE {overflow}

\* -------------------------------------------------------------- the calls

Depth == Len(stack)
Top == stack[Depth]

SetTop(f) == stack' = [stack EXCEPT ![Depth] = f]

\* `return v` (or a `?` that returns): the frame is popped and v goes to the
\* caller, or is the outcome when this is the outermost call.
Return(v) ==
    /\ stack' = SubSeq(stack, 1, Depth - 1)
    /\ log' = [log EXCEPT ![Depth].res = v]
    /\ IF Depth = 1
       THEN result' = v /\ ret' = Running
       ELSE ret' = v /\ UNCHANGED result
    /\ UNCHANGED stdout

\* A panic unwinds every active call.
Panic ==
    /\ stack' = <<>>
    /\ log' = [d \in 1..Len(log) |->
                 IF log[d].res = Running THEN [log[d] EXCEPT !.res = Panicked]
                 ELSE log[d]]
    /\ result' = Panicked
    /\ ret' = Running
    /\ overflow' = "panic"
    /\ UNCHANGED stdout

\* A step inside the current call.
Step(f) ==
    /\ SetTop(f)
    /\ UNCHANGED <<ret, result, stdout, overflow, log>>

\* Lines 144-151: the reader is made and the magic number checked.
ReadMagic ==
    /\ Depth > 0 /\ Top.pc = "magic"
    /\ LET magic_number == ReadExact(Top, 4)
       IN  IF ~magic_number.ok THEN Return(UnexpectedEof) /\ UNCHANGED overflow
           ELSE IF ~IsCr24(magic_number.bytes) THEN Return(NotCrx) /\ UNCHANGED overflow
           ELSE Step([Top EXCEPT !.pos = magic_number.pos, !.pc = "version"])

\* Lines 153-156: the version.
ReadVersion ==
    /\ Depth > 0 /\ Top.pc = "version"
    /\ LET version == ReadExact(Top, 4)
       IN  IF ~version.ok THEN Return(UnexpectedEof) /\ UNCHANGED overflow
           ELSE Step([Top EXCEPT !.pos = version.pos, !.pc = "next_four",
                                 !.version = FromLeBytes(version.bytes)])

\* Lines 158-163: the next four bytes, read whatever the version is.
ReadNextFour ==
    /\ Depth > 0 /\ Top.pc = "next_four"
    /\ LET next_four_buf == ReadExact(Top, 4)
       IN  IF ~next_four_buf.ok THEN Return(UnexpectedEof) /\ UNCHANGED overflow
           ELSE Step([Top EXCEPT !.pos = next_four_buf.pos, !.pc = "match",
                                 !.next_four = FromLeBytes(next_four_buf.bytes)])

\* Lines 167-183: version 2.
MatchV2 ==
    /\ Depth > 0 /\ Top.pc = "match" /\ Top.version = U32(2)
    /\ LET signature_key_length == ReadExact(Top, 4)
           sum    == ZipStartV2(Top.next_four, FromLeBytes(signature_key_length.bytes))
           pk_buf == ReadExact([Top EXCEPT !.pos = signature_key_length.pos], 4)
       IN  IF ~signature_key_length.ok THEN Return(UnexpectedEof) /\ UNCHANGED overflow
           ELSE \E o \in IF sum.over THEN OverflowOutcomes ELSE {"exact"} :
                  IF o = "panic" THEN Panic
                  ELSE IF ~pk_buf.ok
                       THEN /\ Return(UnexpectedEof)
                            /\ overflow' = IF o = "wrap" THEN "wrap" ELSE overflow
                  ELSE /\ SetTop([Top EXCEPT !.pos = pk_buf.pos, !.pc = "opera",
                                    !.zip_start_offset = sum.val,
                                    !.public_key_b64 = Base64Encode(pk_buf.bytes)])
                       /\ overflow' = IF o = "wrap" THEN "wrap" ELSE overflow
                       /\ UNCHANGED <<ret, result, stdout, log>>

\* Lines 184-194: version 3; the public key is the empty placeholder.
MatchV3 ==
    /\ Depth > 0 /\ Top.pc = "match" /\ Top.version = U32(3)
    /\ LET sum == ZipStartV3(Top.next_four)
       IN  \E o \in IF sum.over THEN OverflowOutcomes ELSE {"exact"} :
             IF o = "panic" THEN Panic
             ELSE /\ SetTop([Top EXCEPT !.pc = "opera",
                               !.zip_start_offset = sum.val,
                               !.public_key_b64 = <<>>])
                  /\ overflow' = IF o = "wrap" THEN "wrap" ELSE overflow
                  /\ UNCHANGED <<ret, result, stdout, log>>

\* Line 195: any other version.
MatchOther ==
    /\ Depth > 0 /\ Top.pc = "match"
    /\ Top.version /= U32(2) /\ Top.version /= U32(3)
    /\ Return(InvalidVersion)
    /\ UNCHANGED overflow

\* Line 202: the four bytes just read announce a nested container.
IsNested(version, opera_buf) == version = U32(3) /\ IsCr24(opera_buf)

\* Line 204: the caller's key is given and differs from this container's.
KeyMismatch(previous_public_key, public_key_b64) ==
    previous_public_key.some /\ previous_public_key.val /= public_key_b64

\* A nested call handed the caller's whole buffer again.
NestedInputWhole(f) == f.crx

\* Lines 209-210: the bytes handed to the nested call, those the reader has
\* not consumed yet.
NestedInput(f) == ReadToEnd(f)

\* Lines 198-211: the check for a nested container, and the nested call.
OperaCheck ==
    /\ Depth > 0 /\ Top.pc = "opera"
    /\ LET opera_buf == ReadExact(Top, 4)
           after == [Top EXCEPT !.pos = opera_buf.pos]
           out   == NestedInput(after)
       IN  IF ~opera_buf.ok THEN Return(UnexpectedEof) /\ UNCHANGED overflow
           ELSE IF IsNested(Top.version, opera_buf.bytes)
           THEN /\ stdout' =
                     IF KeyMismatch(Top.previous_public_key, Top.public_key_b64)
                     THEN Append(stdout, <<"Nested CRX: pubkey mismatch; found ",
                                           Top.public_key_b64>>)
                     ELSE stdout
                /\ stack' = [stack EXCEPT ![Depth] =
                                [after EXCEPT !.pos = Len(Top.crx), !.pc = "await"]]
                             \o <<NewFrame(out, Some(Top.public_key_b64))>>
                /\ log' = Append(log, [crx |-> out, res |-> Running])
                /\ UNCHANGED <<ret, result, overflow>>
           ELSE Step([after EXCEPT !.pc = "done"])

\* A nested call whose error is dropped like its payload.
PropagatesNever(r) == FALSE

\* The `?` of line 211 returns on an error.
Propagates(r) == r.kind = "Err"

\* Line 211: the nested call has returned; its payload is dropped.
NestedReturn ==
    /\ Depth > 0 /\ Top.pc = "await" /\ ret /= Running
    /\ IF Propagates(ret)
       THEN Return(ret) /\ UNCHANGED overflow
       ELSE /\ SetTop([Top EXCEPT !.pc = "done"])
            /\ ret' = Running
            /\ UNCHANGED <<result, stdout, overflow, log>>

\* Lines 214-218: the bytes from zip_start_offset to the end are returned.
Done ==
    /\ Depth > 0 /\ Top.pc = "done"
    /\ Return(Ok(SeekAndReadToEnd(Top.crx, Top.zip_start_offset)))
    /\ UNCHANGED overflow

\* ------------------------------------------------------------ the inputs

\* n as the four little-endian bytes of a u32 (n < 2^31).
Le32(n) ==
    << n % 256, (n \div 256) % 256, (n \div 65536) % 256, (n \div 16777216) % 256 >>

AllOnes == <<255, 255, 255, 255>>
Filler == <<80, 75, 3, 4>>

\* The words tried at each of the four header positions.
MagicWords == { Cr24, <<67, 114, 50, 53>>, <<255, 114, 50, 52>> }
VersionWords == { Le32(2), Le32(3), Le32(4), <<2, 0, 0, 1>> }
LengthWords == { Le32(0), Le32(8), AllOnes }
FourthWords == { Le32(0), Le32(4), AllOnes, Cr24 }

Position(i) ==
    IF i = 1 THEN MagicWords
    ELSE IF i = 2 THEN VersionWords
    ELSE IF i = 3 THEN LengthWords
    ELSE FourthWords

RECURSIVE Headers(_)
\* The byte strings made of the first n header words.
Headers(n) ==
    IF n = 0 THEN { <<>> }
    ELSE { h \o w : h \in Headers(n - 1), w \in Position(n) }

RECURSIVE Fill(_)
Fill(n) == IF n = 0 THEN <<>> ELSE Filler \o Fill(n - 1)

TailBytes(t) == [i \in 1..t |-> 48 + i]

\* Buffers of every length from 0 up: whole header words, then filler
\* words after a full header, then a few single bytes.
BaseInputs ==
    { h \o TailBytes(t) : h \in UNION { Headers(n) : n \in 0..3 }, t \in 0..MaxTail }
    \cup { h \o Fill(b) \o TailBytes(t) :
             h \in Headers(4), b \in 0..MaxBody, t \in 0..MaxTail }

\* A version-3 header of header length 0 put right before a container.
WrapBefore(b) == Cr24 \o Le32(3) \o Le32(0) \o b

\* A version-3 header whose 4 header bytes are "Cr24", then a container.
WrapAround(b) == Cr24 \o Le32(3) \o Le32(4) \o Cr24 \o b

RECURSIVE Inputs(_)
Inputs(n) ==
    IF n = 0 THEN BaseInputs
    ELSE LET inner == Inputs(n - 1)
         IN  inner \cup { WrapBefore(b) : b \in inner }
                   \cup { WrapAround(b) : b \in inner }

\* --------------------------------------------------------- specification

\* crx_to_zip(crx, None), as the example calls it, on any input buffer.
Init ==
    /\ \E crx \in Inputs(MaxNest) :
          /\ stack = <<NewFrame(crx, None)>>
          /\ log = << [crx |-> crx, res |-> Running] >>
    /\ ret = Running
    /\ result = Running
    /\ stdout = <<>>
    /\ overflow = "none"

Next ==
    \/ ReadMagic
    \/ ReadVersion
    \/ ReadNextFour
    \/ MatchV2
    \/ MatchV3
    \/ MatchOther
    \/ OperaCheck
    \/ NestedReturn
    \/ Done

Spec == Init /\ [][Next]_vars

\* ------------------------------------------------------------- the claims

\* The buffer the outermost call was given, and whether that call has ended.
input == log[1].crx
Finished == result /= Running

Suffix(b, n) == IF n >= Len(b) THEN <<>> ELSE SubSeq(b, n + 1, Len(b))
HasMagic(b) == Len(b) >= 4 /\ SubSeq(b, 1, 4) = Cr24
Ended(d) == log[d].res /= Running

\* b is 'Cr24' ++ le32(2) ++ le32(k) ++ le32(s) ++ (k + s filler bytes) ++ Z.
IsV2Container(b, k, s) ==
    /\ Len(b) >= 16 + k + s
    /\ SubSeq(b, 1, 16) = Cr24 \o Le32(2) \o Le32(k) \o Le32(s)

\* b is 'Cr24' ++ le32(3) ++ le32(h) ++ (h header bytes) ++ Z.
IsV3Container(b, h) ==
    /\ Len(b) >= 12 + h
    /\ SubSeq(b, 1, 12) = Cr24 \o Le32(3) \o Le32(h)

\* The frame of the outermost call holds the offset n, once it is computed.
OuterOffsetIs(n) ==
    (stack /= <<>> /\ stack[1].pc \in {"opera", "await", "done"})
        => stack[1].zip_start_offset = U32(n)

\* C1: a version-2 container 'Cr24' ++ le32(2) ++ le32(k) ++ le32(s) ++
\* filler ++ Z, for every k, s and Z (short and empty Z included), converts
\* to exactly Z, and the offset computed is 16 + k + s.
C1_V2RoundTrip ==
    (Len(input) >= 16 /\ SubSeq(input, 1, 8) = Cr24 \o Le32(2)) =>
        \A k \in 0..(Len(input) - 16) : \A s \in 0..(Len(input) - 16 - k) :
            IsV2Container(input, k, s) =>
                /\ OuterOffsetIs(16 + k + s)
                /\ Finished => result = Ok(Suffix(input, 16 + k + s))

\* C2: a version-3 container 'Cr24' ++ le32(3) ++ le32(h) ++ header ++ Z,
\* for every h, header and Z, converts to exactly Z, and the offset computed
\* is 12 + h.
C2_V3Extraction ==
    (Len(input) >= 12 /\ SubSeq(input, 1, 8) = Cr24 \o Le32(3)) =>
        \A h \in 0..(Len(input) - 12) :
            IsV3Container(input, h) =>
                /\ OuterOffsetIs(12 + h)
                /\ Finished => result = Ok(Suffix(input, 12 + h))

\* C3 as stated: a buffer that does not start with 'Cr24', a buffer shorter
\* than 4 bytes included, fails with the not-a-CRX error.
C3_NotCrxAlways ==
    (Finished /\ ~HasMagic(input)) => result = NotCrx

\* C3 as amended: a call on a buffer of at least 4 bytes that does not start
\* with 'Cr24' fails with InvalidData "input is not a crx file"; a call on a
\* buffer shorter than 4 bytes fails with UnexpectedEof; neither returns a
\* payload.
C3_NotCrxOrEof ==
    \A d \in 1..Len(log) :
        (Ended(d) /\ ~HasMagic(log[d].crx)) =>
            log[d].res = IF Len(log[d].crx) < 4 THEN UnexpectedEof ELSE NotCrx

\* C3's case: a call given 4 or more bytes that are not 'Cr24' has failed.
C3_Witness ==
    /\ Finished /\ Len(input) >= 4 /\ ~HasMagic(input)
    /\ result = NotCrx

\* The version field of b is present and is neither 2 nor 3.
BadVersion(b) ==
    /\ HasMagic(b) /\ Len(b) >= 8
    /\ SubSeq(b, 5, 8) \notin { Le32(2), Le32(3) }

\* C4 as stated: 'Cr24' and a version other than 2 or 3 fails with the
\* unsupported-version error whatever follows, nothing included.
C4_BadVersionAlways ==
    (Finished /\ BadVersion(input)) => result = InvalidVersion

\* C4 as amended: 'Cr24' and a version other than 2 or 3 fails with
\* InvalidData "invalid crx version" when at least 4 more bytes follow the
\* version field, and with UnexpectedEof when fewer than 4 follow.
C4_BadVersionOrEof ==
    \A d \in 1..Len(log) :
        (Ended(d) /\ BadVersion(log[d].crx)) =>
            log[d].res = IF Len(log[d].crx) < 12 THEN UnexpectedEof
                         ELSE InvalidVersion

\* C4's case: a version that is 2 only in its low byte, followed by more
\* bytes, has been refused.
C4_Witness ==
    /\ Finished /\ Len(input) >= 12 /\ HasMagic(input)
    /\ SubSeq(input, 5, 8) = <<2, 0, 0, 1>>
    /\ result = InvalidVersion

\* The offset the header of b declares (16 + k + s, or 12 + h, as numbers,
\* not as u32) lies past the end of b.
OffsetPastEnd(b) ==
    /\ HasMagic(b) /\ Len(b) >= 12
    /\ LET k == FromLeBytes(SubSeq(b, 9, 12))
       IN  \/ /\ SubSeq(b, 5, 8) = Le32(3)
              /\ (k.hi > 0 \/ 12 + k.lo > Len(b))
           \/ /\ SubSeq(b, 5, 8) = Le32(2) /\ Len(b) >= 16
              /\ LET s == FromLeBytes(SubSeq(b, 13, 16))
                 IN  k.hi > 0 \/ s.hi > 0 \/ 16 + k.lo + s.lo > Len(b)

\* C5: a call whose zip start offset is greater than the length of its
\* buffer returns no payload, empty or not (the runs whose arithmetic
\* overflowed, C6's, left aside).
C5_OffsetWithinBuffer ==
    \A d \in 1..Len(log) :
        (log[d].res.kind = "Ok" /\ overflow = "none") =>
            ~OffsetPastEnd(log[d].crx)

\* C6: the call never panics and its offset arithmetic never overflows or
\* wraps.
C6_NoPanicNoOverflow ==
    result.kind /= "Panic" /\ overflow = "none"

\* C7: an outer version-3 header immediately followed by a complete
\* version-2 container with payload Z converts to Z.
C7_NestedPayload ==
    (Finished /\ Len(input) >= 28 /\ SubSeq(input, 1, 8) = Cr24 \o Le32(3)
              /\ SubSeq(input, 13, 20) = Cr24 \o Le32(2)) =>
        LET inner == SubSeq(input, 13, Len(input))
        IN  \A k \in 0..(Len(inner) - 16) : \A s \in 0..(Len(inner) - 16 - k) :
                IsV2Container(inner, k, s) =>
                    result = Ok(Suffix(inner, 16 + k + s))

\* C8: the buffer handed to a nested call is the rest of the caller's buffer
\* from the first byte of the second 'Cr24', so it starts with 'Cr24'.
C8_NestedStartsAtMagic ==
    \A d \in 2..Len(log) :
        /\ log[d].crx = Suffix(log[d - 1].crx, 12)
        /\ HasMagic(log[d].crx)

\* The suffix of b from the offset 12 + h that a build computes: the sum is
\* taken modulo 2^32 where it overflows and the build wraps.
OuterSuffix(b) ==
    LET h == FromLeBytes(SubSeq(b, 9, 12))
    IN  IF h.hi = 65535 /\ h.lo >= 65524 THEN Suffix(b, h.lo - 65524)
        ELSE IF h.hi > 0 THEN <<>>
        ELSE Suffix(b, 12 + h.lo)

\* C9 as stated: once a call has made a nested call, its outcome is the
\* suffix of its own buffer from 12 + h, whatever the nested call produced.
C9_NestedResultUnused ==
    \A d \in 1..(Len(log) - 1) :
        Ended(d) => log[d].res = Ok(OuterSuffix(log[d].crx))

\* C9 as amended: the payload of a nested call is dropped and the caller
\* returns the suffix of its own buffer from its own offset; an error of the
\* nested call is returned by the caller as it is (and a panic unwinds both).
C9_NestedPayloadUnused ==
    \A d \in 1..(Len(log) - 1) :
        Ended(d) =>
            log[d].res = IF log[d + 1].res.kind = "Ok"
                         THEN Ok(OuterSuffix(log[d].crx))
                         ELSE log[d + 1].res

\* C9's case: a nested call has returned a payload and its caller has
\* returned another one.
C9_Witness ==
    /\ Finished /\ Len(log) >= 2
    /\ log[2].res.kind = "Ok" /\ result.kind = "Ok"
    /\ result /= log[2].res

\* What is left to do: ten per byte of the innermost buffer made so far, and
\* the steps left in every active call.
Rank(pc) ==
    CASE pc = "magic" -> 7 [] pc = "version" -> 6 [] pc = "next_four" -> 5
      [] pc = "match" -> 4 [] pc = "opera" -> 3 [] pc = "await" -> 2
      [] pc = "done" -> 1

RECURSIVE RankSum(_)
RankSum(frames) ==
    IF frames = <<>> THEN 0 ELSE Rank(Head(frames).pc) + RankSum(Tail(frames))

Measure == 10 * Len(log[Len(log)].crx) + RankSum(stack)

\* Every nested call gets 16 bytes less than its caller, so there are at
\* most floor(len / 16) of them; while the outermost call has not ended a
\* call is active, at a place from which it goes on.
C10_DepthBound ==
    /\ \A d \in 2..Len(log) : Len(log[d].crx) + 16 = Len(log[d - 1].crx)
    /\ (Len(log) - 1) * 16 <= Len(input)
    /\ Len(stack) <= Len(log)
    /\ ~Finished => /\ Depth > 0
                    /\ Top.pc = "await" => ret /= Running

\* C10: every call terminates: the depth of recursion is bounded by the
\* length of the input, and every step makes the measure smaller.
C10_Terminates ==
    [][Measure' < Measure]_vars /\ []C10_DepthBound

\* C10's case: a call nested in a nested call has ended, and so has the
\* outermost call.
C10_Witness ==
    Finished /\ Len(log) = 3

====
